---- MODULE Spec2Model ----
(***************************************************************************)
(* Model of the qcodes driver MercuryiPS (src/mercuryiPS.py): the          *)
(* supervised field ramp set_field_and_ramp_blocking, ramp_to_target,      *)
(* switch_heater_on_and_wait, the temperature limit accessor and the       *)
(* progress report, running against a power supply whose mode, field and   *)
(* temperature change between two round-trips of the driver.               *)
(*                                                                         *)
(* Fields are integers (tesla), temperatures are integers (kelvin).        *)
(* Every self.ask()/parameter get is one round-trip and one step of the    *)
(* driver; log is the sequence of commands that reached the device during  *)
(* the current invocation.                                                 *)
(***************************************************************************)
EXTENDS Integers, Sequences, FiniteSets, TLC

\* ---- bounds of the model ------------------------------------------------
MaxPolls == 2      \* poll iterations of one ramp that continue the loop
MaxPath  == 2      \* echoed path segments in front of a reply's payload
MaxInt   == 1      \* digits before the decimal point of a reading
MaxFrac  == 2      \* digits after the decimal point of a reading

\* ---- program constants --------------------------------------------------
TLimitDefault == 5         \* self.t_limit = 5.0
FieldLimit    == 7         \* vals.Numbers(min_value=-7.0, max_value=7.0)
HeaterWait    == 600       \* time.sleep(60*10), seconds

\* fields the supply can be at: both ends of the allowed range and zero;
\* values a caller may ask for: these and the first ones out of range
DevFields   == {-FieldLimit, 0, FieldLimit}
FieldInputs == DevFields \cup {-(FieldLimit + 1), FieldLimit + 1}
\* temperatures and limits: below, at and above the default limit
Temps       == {TLimitDefault - 1, TLimitDefault, TLimitDefault + 1}
Tokens      == {"HOLD", "RTOS", "CLMP", "RTOZ"}
\* what a switch_heater read can end in: the two states and the supply's
\* answer when it has no state to report
HeaterTokens == {"ON", "OFF", "N/A"}
Labels      == {"HOLD", "TO SET", "CLAMP", "TO ZERO"}

VARIABLES
    pc,          \* position of the driver's single thread of control
    op,          \* operation being (or last) executed
    result,      \* how the last invocation ended; "none" while running
    log,         \* commands of this invocation whose round-trip completed
    heater,      \* device: SIG:SWHT
    mode,        \* device: ACTN wire token
    fld,         \* device: SIG:FLD
    fset,        \* device: SIG:FSET
    temp,        \* device: MB1.T1 TEMP
    t_limit,     \* self.t_limit
    start,       \* local start of set_field_and_ramp_blocking
    target,      \* argument target
    status,      \* last label returned by ramp_status()
    cmpTemp,     \* value of self.temp() in the comparison of line 165
    cmpLimit,    \* value of self.temp_limit() in the comparison of line 165
    errLimit,    \* limit embedded in the ValueError message
    errReached,  \* temperature embedded in the ValueError message
    cur,         \* self.field() passed to _print_field_status
    report,      \* what the last _print_field_status call did
    polls,       \* completed poll iterations of this invocation
    waited,      \* seconds switch_heater_on_and_wait has slept
    reply,       \* wire: the raw reply string handed to a get_parser
    pfn,         \* wire: the accessor that ran last
    pout,        \* wire: what that accessor returned or raised
    pnum,        \* wire: the number the device formatted into the reply
    pvalid,      \* wire: the payload was <number><unit> of the right length
    plabel,      \* wire: the label handed to ramp_status(label)
    ptoken,      \* wire: the ACTN token the device holds
    pwire        \* wire: the commands ramp_status(label) has sent

wire == <<reply, pfn, pout, pnum, pvalid, plabel, ptoken, pwire>>

vars == <<pc, op, result, log, heater, mode, fld, fset, temp, t_limit, start,
          target, status, cmpTemp, cmpLimit, errLimit, errReached, cur,
          report, polls, waited, wire>>

device == <<heater, mode, fld, fset, temp>>
locals == <<start, target, status, cmpTemp, cmpLimit, errLimit, errReached,
            cur, report, polls, waited>>

\* ---- the quantity table -------------------------------------------------
\* val_mapping of ramp_status: label -> wire token
ValMapping ==
    [l \in Labels |-> CASE l = "HOLD"    -> "HOLD"
                        [] l = "TO SET"  -> "RTOS"
                        [] l = "CLAMP"   -> "CLMP"
                        [] l = "TO ZERO" -> "RTOZ"]

\* the inverse mapping applied to a reply's token by ramp_status()
InverseValMapping(tok) == CHOOSE l \in Labels : ValMapping[l] = tok

\* one command on the wire: k is "R" or "W", q the leaf, v the token carried
Cmd(k, q, v) == [k |-> k, q |-> q, v |-> v]

\* vals.Numbers(min_value=-7.0, max_value=7.0) of the field parameter
FieldValid_noMin(x) == x <= FieldLimit
FieldValid(x) == -FieldLimit <= x /\ x <= FieldLimit

\* the interlock test of line 165
InterlockTrips_geq(t, limit) == t >= limit
InterlockTrips(t, limit) == t > limit

\* the loop condition of line 164
LoopContinues_notHold(st) == st # "HOLD"
LoopContinues_always(st) == TRUE
LoopContinues(st) == st = "TO SET"

\* the test of line 186
NeedsHold_never(st) == FALSE
NeedsHold(st) == st = "CLAMP"

Abs(x) == IF x < 0 THEN -x ELSE x

\* _print_field_status: status = abs((start - current) / (start - stop)) as
\* the pair <<numerator, denominator>>; float division by zero raises
PrintFieldStatus(s, c, stop) ==
    IF s - stop = 0 THEN [out |-> "ZeroDivisionError", num |-> Abs(s - c), den |-> 0]
    ELSE IF Abs(s - c) < Abs(s - stop)
         THEN [out |-> "percent", num |-> Abs(s - c), den |-> Abs(s - stop)]
         ELSE [out |-> "waiting", num |-> Abs(s - c), den |-> Abs(s - stop)]

NoReport == [out |-> "none", num |-> 0, den |-> 1]

\* ---- replies on the wire -------------------------------------------------
\* A string is the sequence of its characters.
DigitChars == {"0", "1", "2", "3", "4", "5", "6", "7", "8", "9"}

DigitVal ==
    [c \in DigitChars |-> CASE c = "0" -> 0 [] c = "1" -> 1 [] c = "2" -> 2
                            [] c = "3" -> 3 [] c = "4" -> 4 [] c = "5" -> 5
                            [] c = "6" -> 6 [] c = "7" -> 7 [] c = "8" -> 8
                            [] c = "9" -> 9]

\* the characters of the four ACTN wire tokens
TokenChars ==
    [t \in Tokens |-> CASE t = "HOLD" -> <<"H", "O", "L", "D">>
                        [] t = "RTOS" -> <<"R", "T", "O", "S">>
                        [] t = "CLMP" -> <<"C", "L", "M", "P">>
                        [] t = "RTOZ" -> <<"R", "T", "O", "Z">>]

Max(S) == CHOOSE x \in S : \A y \in S : y <= x

\* str.split(':')[-1]: what follows the last ':' (all of it without a ':')
LastSegment_first(s) ==
    LET cut == {i \in 1..Len(s) : s[i] = ":"}
    IN  IF cut = {} THEN s ELSE SubSeq(s, 1, (CHOOSE i \in cut : \A j \in cut : i <= j) - 1)

LastSegment(s) ==
    LET cut == {i \in 1..Len(s) : s[i] = ":"}
    IN  IF cut = {} THEN s ELSE SubSeq(s, Max(cut) + 1, Len(s))

\* s[:-n]: s without its last n characters (empty when s is shorter)
DropLast(s, n) == IF Len(s) <= n THEN <<>> ELSE SubSeq(s, 1, Len(s) - n)

RECURSIVE DigitsToNat(_)
DigitsToNat(ds) ==
    IF ds = <<>> THEN 0
    ELSE 10 * DigitsToNat(SubSeq(ds, 1, Len(ds) - 1)) + DigitVal[ds[Len(ds)]]

\* a number is the pair mantissa m, decimal exponent e (m / 10^e) without
\* trailing zeros in the fraction, so equal numbers are equal pairs
RECURSIVE Normal(_, _)
Normal(m, e) == IF e > 0 /\ m % 10 = 0 THEN Normal(m \div 10, e - 1) ELSE <<m, e>>

Returned(kind, s, n) == [kind |-> kind, s |-> s, m |-> n[1], e |-> n[2]]
Raised(err) == Returned("error", err, <<0, 0>>)
NoOutput == Returned("none", "", <<0, 0>>)

\* float(text) for a text over digits, sign, point, ':' and unit letters:
\* [sign] digits [ '.' digits ] with at least one digit, else ValueError
Float(text) ==
    LET signed == text # <<>> /\ text[1] \in {"-", "+"}
        body   == IF signed THEN Tail(text) ELSE text
        dots   == {i \in 1..Len(body) : body[i] = "."}
        ip     == IF dots = {} THEN body ELSE SubSeq(body, 1, Max(dots) - 1)
        fp     == IF dots = {} THEN <<>> ELSE SubSeq(body, Max(dots) + 1, Len(body))
        mag    == DigitsToNat(ip \o fp)
    IN  IF /\ Cardinality(dots) <= 1
           /\ Len(ip) + Len(fp) >= 1
           /\ \A i \in 1..Len(ip) : ip[i] \in DigitChars
           /\ \A i \in 1..Len(fp) : fp[i] \in DigitChars
        THEN Returned("num", "",
                      Normal(IF signed /\ text[1] = "-" THEN -mag ELSE mag, Len(fp)))
        ELSE Raised("ValueError")

\* _preparser
Preparser(bare_resp) == LastSegment(bare_resp)

\* _singleunit_parser
SingleUnitParser_dropTwo(value) == Float(DropLast(LastSegment(value), 2))
SingleUnitParser(value) == Float(DropLast(LastSegment(value), 1))

\* _rate_parser
RateParser_dropOne(value) == Float(DropLast(LastSegment(value), 1))
RateParser(value) == Float(DropLast(LastSegment(value), 3))

\* ramp_status(): get_parser, then the inverse of val_mapping; a token that
\* is no value of the mapping (and no integer) raises KeyError
RampStatusGet(bare_resp) ==
    LET raw == Preparser(bare_resp)
    IN  IF \E t \in Tokens : TokenChars[t] = raw
        THEN Returned("label", InverseValMapping(CHOOSE t \in Tokens : TokenChars[t] = raw),
                      <<0, 0>>)
        ELSE Raised("KeyError")

\* no accessor has run
WireIdle ==
    /\ reply = <<>> /\ pfn = "none" /\ pout = NoOutput
    /\ pnum = [neg |-> FALSE, ip |-> <<"0">>, fp |-> <<>>]
    /\ pvalid = FALSE /\ plabel = "HOLD" /\ ptoken = "HOLD" /\ pwire = <<>>

\* ---- initial state ------------------------------------------------------
Init ==
    /\ pc = "idle" /\ op = "none" /\ result = "none" /\ log = <<>>
    /\ heater \in HeaterTokens
    /\ mode \in Tokens
    /\ fld \in DevFields
    /\ fset \in DevFields
    /\ temp \in Temps
    /\ t_limit = TLimitDefault
    /\ start = 0 /\ target = 0 /\ status = "HOLD"
    /\ cmpTemp = 0 /\ cmpLimit = 0 /\ errLimit = 0 /\ errReached = 0
    /\ cur = 0 /\ report = NoReport /\ polls = 0 /\ waited = 0
    /\ WireIdle

\* a fresh invocation: the locals of the previous one are gone
Fresh(o, x) ==
    /\ op' = o /\ log' = <<>>
    /\ start' = 0 /\ target' = x /\ status' = "HOLD"
    /\ cmpTemp' = 0 /\ cmpLimit' = 0 /\ errLimit' = 0 /\ errReached' = 0
    /\ cur' = 0 /\ report' = NoReport /\ polls' = 0 /\ waited' = 0

\* the running method returns or raises: the caller holds the outcome at
\* "done" until it takes it (Return); that instant takes no time
Finish(r) == pc' = "done" /\ result' = r

Send(c) == log' = Append(log, c)

\* ---- callers ------------------------------------------------------------
\* field(x): the parameter's set wrapper validates x against vals, then runs
\* set_cmd = set_field_and_ramp_blocking(x)
CallFieldSet ==
    /\ pc = "idle"
    /\ \E x \in FieldInputs :
        /\ Fresh("field", x)
        /\ IF FieldValid(x) THEN pc' = "sfrb_heater" /\ result' = "none"
                            ELSE Finish("ValidationError")
    /\ UNCHANGED <<device, t_limit>>
    /\ UNCHANGED wire

\* the caller has the outcome of the invocation; its locals are discarded
Return ==
    /\ pc = "done"
    /\ Fresh("none", 0)
    /\ pc' = "idle" /\ result' = "none"
    /\ UNCHANGED <<device, t_limit>>
    /\ UNCHANGED wire

\* ramp_to_target() called on its own
CallRampToTarget ==
    /\ pc = "idle"
    /\ Fresh("ramp_to_target", 0)
    /\ pc' = "rtt_read" /\ result' = "none"
    /\ UNCHANGED <<device, t_limit>>
    /\ UNCHANGED wire

\* switch_heater_on_and_wait()
CallSwitchHeaterOn ==
    /\ pc = "idle"
    /\ Fresh("switch_heater_on_and_wait", 0)
    /\ pc' = "sh_read" /\ result' = "none"
    /\ UNCHANGED <<device, t_limit>>
    /\ UNCHANGED wire

\* switch_heater(x): the writable quantity set directly by a caller
CallSwitchHeaterSet ==
    /\ pc = "idle"
    /\ Fresh("switch_heater", 0)
    /\ pc' = "swht_write" /\ result' = "none"
    /\ UNCHANGED <<device, t_limit>>
    /\ UNCHANGED wire

\* temp_limit(x): t_limit_setter, an ordinary attribute store that another
\* caller can run between two round-trips of a ramp
TLimitSetter ==
    /\ pc # "done"
    /\ \E x \in Temps : x # t_limit /\ t_limit' = x
    /\ UNCHANGED <<pc, op, result, log, device, locals>>
    /\ UNCHANGED wire

\* ---- set_field_and_ramp_blocking ---------------------------------------
\* line 158: if self.switch_heater() == 'OFF': raise print(...)
\* print returns None and "raise None" is a TypeError
SfrbHeater_noCheck ==
    /\ pc = "sfrb_heater"
    /\ Send(Cmd("R", "SWHT", heater))
    /\ pc' = "sfrb_start"
    /\ UNCHANGED <<op, result, device, t_limit, locals>>
    /\ UNCHANGED wire

SfrbHeater ==
    /\ pc = "sfrb_heater"
    /\ Send(Cmd("R", "SWHT", heater))
    /\ IF heater = "OFF" THEN Finish("TypeError")
                         ELSE pc' = "sfrb_start" /\ UNCHANGED result
    /\ UNCHANGED <<op, device, t_limit, locals>>
    /\ UNCHANGED wire

\* line 161: start = self.field()
SfrbStart_skip ==
    /\ pc = "sfrb_start"
    /\ start' = 0
    /\ pc' = "sfrb_target"
    /\ UNCHANGED <<op, result, log, device, t_limit, target, status, cmpTemp,
                   cmpLimit, errLimit, errReached, cur, report, polls, waited>>
    /\ UNCHANGED wire

SfrbStart ==
    /\ pc = "sfrb_start"
    /\ Send(Cmd("R", "FLD", ""))
    /\ start' = fld
    /\ pc' = "sfrb_target"
    /\ UNCHANGED <<op, result, device, t_limit, target, status, cmpTemp,
                   cmpLimit, errLimit, errReached, cur, report, polls, waited>>
    /\ UNCHANGED wire

\* line 162: self.field_target(target)
SfrbTarget ==
    /\ pc = "sfrb_target"
    /\ Send(Cmd("W", "FSET", ""))
    /\ fset' = target
    /\ pc' = "rtt_read"
    /\ UNCHANGED <<op, result, heater, mode, fld, temp, t_limit, locals>>
    /\ UNCHANGED wire

\* ---- ramp_to_target -----------------------------------------------------
\* line 185: status = self.ramp_status()
RttRead ==
    /\ pc = "rtt_read"
    /\ Send(Cmd("R", "ACTN", mode))
    /\ status' = InverseValMapping(mode)
    /\ pc' = IF NeedsHold(InverseValMapping(mode)) THEN "rtt_hold" ELSE "rtt_toset"
    /\ UNCHANGED <<op, result, device, t_limit, start, target, cmpTemp,
                   cmpLimit, errLimit, errReached, cur, report, polls, waited>>
    /\ UNCHANGED wire

\* line 187: self.ramp_status('HOLD')
RttHold ==
    /\ pc = "rtt_hold"
    /\ Send(Cmd("W", "ACTN", ValMapping["HOLD"]))
    /\ mode' = ValMapping["HOLD"]
    /\ pc' = "rtt_toset"
    /\ UNCHANGED <<op, result, heater, fld, fset, temp, t_limit, locals>>
    /\ UNCHANGED wire

\* line 188: self.ramp_status('TO SET'); the supervised ramp goes on to its
\* loop, the bare ramp_to_target returns
RttToSet_guarded ==
    /\ pc = "rtt_toset"
    /\ IF temp > t_limit
       THEN /\ Finish("TemperatureExceeded")
            /\ UNCHANGED <<log, mode>>
       ELSE /\ Send(Cmd("W", "ACTN", ValMapping["TO SET"]))
            /\ mode' = ValMapping["TO SET"]
            /\ IF op = "ramp_to_target" THEN Finish("Completed")
                                        ELSE pc' = "poll_status" /\ UNCHANGED result
    /\ UNCHANGED <<op, heater, fld, fset, temp, t_limit, locals>>
    /\ UNCHANGED wire

RttToSet ==
    /\ pc = "rtt_toset"
    /\ Send(Cmd("W", "ACTN", ValMapping["TO SET"]))
    /\ mode' = ValMapping["TO SET"]
    /\ IF op = "ramp_to_target" THEN Finish("Completed")
                                ELSE pc' = "poll_status" /\ UNCHANGED result
    /\ UNCHANGED <<op, heater, fld, fset, temp, t_limit, locals>>
    /\ UNCHANGED wire

\* ---- the supervised loop ------------------------------------------------
\* line 164: while self.ramp_status() == 'TO SET'
\* (the temporaries of the previous iteration are dead: cur and report here,
\* the two sides of the comparison after the field read)
PollStatus ==
    /\ pc = "poll_status"
    /\ LoopContinues(InverseValMapping(mode)) => polls < MaxPolls
    /\ Send(Cmd("R", "ACTN", mode))
    /\ status' = InverseValMapping(mode)
    /\ IF LoopContinues(InverseValMapping(mode))
       THEN pc' = "poll_temp" /\ UNCHANGED result
       ELSE Finish("Completed")
    /\ cur' = 0 /\ report' = NoReport
    /\ UNCHANGED <<op, device, t_limit, start, target, cmpTemp, cmpLimit,
                   errLimit, errReached, polls, waited>>
    /\ UNCHANGED wire

\* line 165: if self.temp() > self.temp_limit()
PollTemp_staleLimit ==
    /\ pc = "poll_temp"
    /\ Send(Cmd("R", "TEMP", ""))
    /\ cmpTemp' = temp
    /\ cmpLimit' = TLimitDefault
    /\ pc' = IF InterlockTrips(temp, TLimitDefault) THEN "trip_hold" ELSE "poll_field"
    /\ UNCHANGED <<op, result, device, t_limit, start, target, status,
                   errLimit, errReached, cur, report, polls, waited>>
    /\ UNCHANGED wire

PollTemp ==
    /\ pc = "poll_temp"
    /\ Send(Cmd("R", "TEMP", ""))
    /\ cmpTemp' = temp
    /\ cmpLimit' = t_limit
    /\ pc' = IF InterlockTrips(temp, t_limit) THEN "trip_hold" ELSE "poll_field"
    /\ UNCHANGED <<op, result, device, t_limit, start, target, status,
                   errLimit, errReached, cur, report, polls, waited>>
    /\ UNCHANGED wire

\* line 166: self.ramp_status('HOLD')
TripHold_skip ==
    /\ pc = "trip_hold"
    /\ pc' = "trip_raise"
    /\ UNCHANGED <<op, result, log, device, t_limit, locals>>
    /\ UNCHANGED wire

TripHold ==
    /\ pc = "trip_hold"
    /\ Send(Cmd("W", "ACTN", ValMapping["HOLD"]))
    /\ mode' = ValMapping["HOLD"]
    /\ pc' = "trip_raise"
    /\ UNCHANGED <<op, result, heater, fld, fset, temp, t_limit, locals>>
    /\ UNCHANGED wire

\* lines 167-170: the message is built from self.temp_limit() and a new
\* self.temp(), then the ValueError is raised
TripRaise_retry ==
    /\ pc = "trip_raise"
    /\ errLimit' = t_limit
    /\ Send(Cmd("R", "TEMP", ""))
    /\ errReached' = temp
    /\ pc' = "rtt_toset" /\ result' = "TemperatureExceeded"
    /\ UNCHANGED <<op, device, t_limit, start, target, status, cmpTemp,
                   cmpLimit, cur, report, polls, waited>>
    /\ UNCHANGED wire

TripRaise ==
    /\ pc = "trip_raise"
    /\ errLimit' = t_limit
    /\ Send(Cmd("R", "TEMP", ""))
    /\ errReached' = temp
    /\ Finish("TemperatureExceeded")
    /\ UNCHANGED <<op, device, t_limit, start, target, status, cmpTemp,
                   cmpLimit, cur, report, polls, waited>>
    /\ UNCHANGED wire

\* lines 171-172: time.sleep(0.1);
\* self._print_field_status(start, self.field(), target)
PollField_holdOnError ==
    /\ pc = "poll_field"
    /\ cur' = fld
    /\ report' = PrintFieldStatus(start, fld, target)
    /\ IF PrintFieldStatus(start, fld, target).out = "ZeroDivisionError"
       THEN /\ log' = log \o <<Cmd("R", "FLD", ""), Cmd("W", "ACTN", ValMapping["HOLD"])>>
            /\ mode' = ValMapping["HOLD"]
            /\ Finish("ZeroDivisionError") /\ UNCHANGED polls
       ELSE /\ Send(Cmd("R", "FLD", ""))
            /\ pc' = "poll_status" /\ polls' = polls + 1 /\ UNCHANGED <<result, mode>>
    /\ cmpTemp' = 0 /\ cmpLimit' = 0
    /\ UNCHANGED <<op, heater, fld, fset, temp, t_limit, start, target, status,
                   errLimit, errReached, waited>>
    /\ UNCHANGED wire

PollField ==
    /\ pc = "poll_field"
    /\ Send(Cmd("R", "FLD", ""))
    /\ cur' = fld
    /\ report' = PrintFieldStatus(start, fld, target)
    /\ IF PrintFieldStatus(start, fld, target).out = "ZeroDivisionError"
       THEN Finish("ZeroDivisionError") /\ UNCHANGED polls
       ELSE pc' = "poll_status" /\ polls' = polls + 1 /\ UNCHANGED result
    /\ cmpTemp' = 0 /\ cmpLimit' = 0
    /\ UNCHANGED <<op, device, t_limit, start, target, status,
                   errLimit, errReached, waited>>
    /\ UNCHANGED wire

\* ---- switch_heater_on_and_wait -----------------------------------------
\* line 152: if self.switch_heater() == 'OFF'
ShRead_notOn ==
    /\ pc = "sh_read"
    /\ Send(Cmd("R", "SWHT", heater))
    /\ IF heater # "ON" THEN pc' = "sh_write" /\ UNCHANGED result
                        ELSE Finish("Completed")
    /\ UNCHANGED <<op, device, t_limit, locals>>
    /\ UNCHANGED wire

ShRead ==
    /\ pc = "sh_read"
    /\ Send(Cmd("R", "SWHT", heater))
    /\ IF heater = "OFF" THEN pc' = "sh_write" /\ UNCHANGED result
                         ELSE Finish("Completed")
    /\ UNCHANGED <<op, device, t_limit, locals>>
    /\ UNCHANGED wire

\* line 153: self.switch_heater('ON')
ShWrite ==
    /\ pc = "sh_write"
    /\ Send(Cmd("W", "SWHT", "ON"))
    /\ heater' = "ON"
    /\ pc' = "sh_wait"
    /\ UNCHANGED <<op, result, mode, fld, fset, temp, t_limit, locals>>
    /\ UNCHANGED wire

\* line 154: time.sleep(60*10)
ShWait ==
    /\ pc = "sh_wait"
    /\ waited' = HeaterWait
    /\ Finish("Completed")
    /\ UNCHANGED <<op, log, device, t_limit, start, target, status, cmpTemp,
                   cmpLimit, errLimit, errReached, cur, report, polls>>
    /\ UNCHANGED wire

\* set_cmd of switch_heater (line 131): SET:...:SIG:SWHT:x
SwhtWrite ==
    /\ pc = "swht_write"
    /\ \E x \in {"ON", "OFF"} :
        /\ Send(Cmd("W", "SWHT", x))
        /\ heater' = x
    /\ Finish("Completed")
    /\ UNCHANGED <<op, mode, fld, fset, temp, t_limit, locals>>
    /\ UNCHANGED wire

\* ---- transport -----------------------------------------------------------
RoundTripPcs == {"sfrb_heater", "sfrb_start", "sfrb_target", "rtt_read",
                 "rtt_hold", "rtt_toset", "poll_status", "poll_temp",
                 "trip_hold", "trip_raise", "poll_field", "sh_read", "sh_write",
                 "swht_write"}

\* a round-trip of self.ask fails (timeout, closed session): the exception
\* leaves the running method, the command has no effect on the device
TransportFail_swallow ==
    /\ pc \in RoundTripPcs
    /\ result = "none"
    /\ result' = "CommunicationError"
    /\ UNCHANGED <<pc, op, log, device, t_limit, locals>>
    /\ UNCHANGED wire

TransportFail ==
    /\ pc \in RoundTripPcs
    /\ Finish("CommunicationError")
    /\ UNCHANGED <<op, log, device, t_limit, locals>>
    /\ UNCHANGED wire

\* the positions whose round-trip is a read
ReadPcs == {"sfrb_heater", "sfrb_start", "rtt_read", "poll_status",
            "poll_temp", "trip_raise", "poll_field", "sh_read"}

\* the reply of a read does not parse (float raises ValueError, the inverse
\* mapping raises KeyError): the exception leaves the running method
ReplyUnparsable ==
    /\ pc \in ReadPcs
    /\ Finish("ParseError")
    /\ UNCHANGED <<op, log, device, t_limit, locals>>
    /\ UNCHANGED wire

\* ---- the power supply ----------------------------------------------------
\* the magnet temperature moves
DeviceTemp ==
    /\ pc # "done"
    /\ \E t \in Temps : t # temp /\ temp' = t
    /\ UNCHANGED <<pc, op, result, log, heater, mode, fld, fset, t_limit, locals>>
    /\ UNCHANGED wire

\* ramping to set: the field moves towards its target
DeviceRamp ==
    /\ pc # "done"
    /\ mode = "RTOS" /\ fld # fset
    /\ \E f \in DevFields :
        /\ \/ fld < f /\ f <= fset
           \/ fset <= f /\ f < fld
        /\ fld' = f
    /\ UNCHANGED <<pc, op, result, log, heater, mode, fset, temp, t_limit, locals>>
    /\ UNCHANGED wire

\* the action is changed from outside the driver (front panel, another
\* client): the "external hold" of the ramp loop
DeviceExternal ==
    /\ pc # "done"
    /\ \E m \in Tokens : m # mode /\ mode' = m
    /\ UNCHANGED <<pc, op, result, log, heater, fld, fset, temp, t_limit, locals>>
    /\ UNCHANGED wire

\* the target is reached: the supply leaves ramp mode by itself
DeviceSettle ==
    /\ pc # "done"
    /\ mode = "RTOS" /\ fld = fset
    /\ mode' = "HOLD"
    /\ UNCHANGED <<pc, op, result, log, heater, fld, fset, temp, t_limit, locals>>
    /\ UNCHANGED wire

Next ==
    \/ CallFieldSet \/ CallRampToTarget \/ CallSwitchHeaterOn \/ Return
    \/ CallSwitchHeaterSet \/ SwhtWrite
    \/ TLimitSetter
    \/ SfrbHeater \/ SfrbStart \/ SfrbTarget
    \/ RttRead \/ RttHold \/ RttToSet
    \/ PollStatus \/ PollTemp \/ TripHold \/ TripRaise \/ PollField
    \/ ShRead \/ ShWrite \/ ShWait
    \/ TransportFail \/ ReplyUnparsable
    \/ DeviceTemp \/ DeviceRamp \/ DeviceExternal \/ DeviceSettle

Spec == Init /\ [][Next]_vars

\* the steps of the driver's own thread while a method runs
DriverStep ==
    \/ SfrbHeater \/ SfrbStart \/ SfrbTarget
    \/ RttRead \/ RttHold \/ RttToSet
    \/ PollStatus \/ PollTemp \/ TripHold \/ TripRaise \/ PollField
    \/ ShRead \/ ShWrite \/ ShWait \/ SwhtWrite

\* every round-trip and every sleep of a running method returns; the supply
\* ramps and settles; a status other than RTOS that the supply shows again
\* and again is read at last
Fairness ==
    /\ WF_vars(DriverStep)
    /\ SF_vars(PollStatus)
    /\ WF_vars(DeviceRamp)
    /\ WF_vars(DeviceSettle)

FairSpec == Spec /\ Fairness

\* ---- the accessors alone, against every reply --------------------------
\* digits the device uses in the readings drawn here
InDigits == {"0", "2", "5"}

SeqsOfLen(S, lo, hi) == UNION {[1..k -> S] : k \in lo..hi}

\* the readings the device formats: sign, integer digits, fraction digits
Numerals ==
    [neg : BOOLEAN, ip : SeqsOfLen(InDigits, 1, MaxInt), fp : SeqsOfLen(InDigits, 0, MaxFrac)]

\* the text of a reading, as the device prints it
Fmt(n) ==
    (IF n.neg THEN <<"-">> ELSE <<>>) \o n.ip
        \o (IF n.fp = <<>> THEN <<>> ELSE <<".">> \o n.fp)

\* the number a reading stands for
ValueOf(n) ==
    Normal((IF n.neg THEN -1 ELSE 1) * DigitsToNat(n.ip \o n.fp), Len(n.fp))

\* k echoed path segments, each closed by the delimiter
RECURSIVE Path(_)
Path(k) == IF k = 0 THEN <<>> ELSE <<"S", ":">> \o Path(k - 1)

Units1 == {<<"T">>, <<"A">>, <<"V">>, <<"K">>}
Units3 == {<<"A", "/", "m">>, <<"T", "/", "m">>, <<"A", "/", "T">>}

\* payloads that are no <number><unit>
NoMagnitude == {<<>>, <<"T">>, <<"-", "T">>, <<".", "T">>, <<"H", "O", "L", "D">>,
                <<"2", ".", "5", ".", "0", "T">>, <<"2", ".", "5", "A", "/", "m">>}
NoRate      == {<<>>, <<"A", "/", "m">>, <<"-", "A", "/", "m">>, <<"H", "O", "L", "D">>,
                <<"2", ".", ".", "5", "A", "/", "m">>}

\* labels a caller may hand to ramp_status(label)
LabelInputs == Labels \cup {"RTOS", "hold"}

DriverIdle ==
    /\ pc = "idle" /\ op = "none" /\ result = "none" /\ log = <<>>
    /\ heater = "ON" /\ mode = "HOLD" /\ fld = 0 /\ fset = 0
    /\ temp = TLimitDefault /\ t_limit = TLimitDefault
    /\ start = 0 /\ target = 0 /\ status = "HOLD"
    /\ cmpTemp = 0 /\ cmpLimit = 0 /\ errLimit = 0 /\ errReached = 0
    /\ cur = 0 /\ report = NoReport /\ polls = 0 /\ waited = 0

driver == <<pc, op, result, log, device, t_limit, locals>>

WireInit ==
    /\ DriverIdle
    /\ reply = <<>> /\ pfn = "none" /\ pout = NoOutput
    /\ pnum = [neg |-> FALSE, ip |-> <<"0">>, fp |-> <<>>]
    /\ pvalid = FALSE /\ plabel = "HOLD" /\ pwire = <<>>
    /\ ptoken \in Tokens

\* a magnitude accessor (voltage, current, field, temp, ...) reads a reply
GetMagnitude ==
    /\ pfn = "none"
    /\ \E k \in 0..MaxPath :
        \/ \E n \in Numerals, u \in Units1 :
              /\ reply' = Path(k) \o Fmt(n) \o u
              /\ pnum' = n /\ pvalid' = TRUE
        \/ \E g \in NoMagnitude :
              /\ reply' = Path(k) \o g
              /\ pvalid' = FALSE /\ UNCHANGED pnum
    /\ pfn' = "singleunit"
    /\ pout' = SingleUnitParser(reply')
    /\ UNCHANGED <<driver, plabel, ptoken, pwire>>

\* a rate accessor (current_ramp_rate, field_ramp_rate, ATOB) reads a reply
GetRate ==
    /\ pfn = "none"
    /\ \E k \in 0..MaxPath :
        \/ \E n \in Numerals, u \in Units3 :
              /\ reply' = Path(k) \o Fmt(n) \o u
              /\ pnum' = n /\ pvalid' = TRUE
        \/ \E g \in NoRate :
              /\ reply' = Path(k) \o g
              /\ pvalid' = FALSE /\ UNCHANGED pnum
    /\ pfn' = "rate"
    /\ pout' = RateParser(reply')
    /\ UNCHANGED <<driver, plabel, ptoken, pwire>>

\* ramp_status(): the device echoes the path and its ACTN token
GetRampStatus ==
    /\ pfn = "none"
    /\ \E k \in 0..MaxPath : reply' = Path(k) \o TokenChars[ptoken]
    /\ pfn' = "ramp_status_get"
    /\ pout' = RampStatusGet(reply')
    /\ UNCHANGED <<driver, pnum, pvalid, plabel, ptoken, pwire>>

\* ramp_status(label): the keys of val_mapping are the allowed values; an
\* allowed label is mapped and sent, any other raises before set_cmd runs
SetRampStatus ==
    /\ pfn = "none"
    /\ \E l \in LabelInputs :
        /\ plabel' = l
        /\ IF l \in DOMAIN ValMapping
           THEN /\ pwire' = <<Cmd("W", "ACTN", ValMapping[l])>>
                /\ ptoken' = ValMapping[l]
                /\ pout' = NoOutput
           ELSE /\ pwire' = <<>>
                /\ pout' = Raised("ValueError")
                /\ UNCHANGED ptoken
    /\ pfn' = "ramp_status_set"
    /\ UNCHANGED <<driver, reply, pnum, pvalid>>

\* the accessor has returned or raised: its caller takes the outcome, the
\* reply is gone; what the device holds and what was sent stay
WireReturn ==
    /\ pfn # "none"
    /\ reply' = <<>> /\ pfn' = "none" /\ pout' = NoOutput
    /\ pnum' = [neg |-> FALSE, ip |-> <<"0">>, fp |-> <<>>]
    /\ pvalid' = FALSE
    /\ UNCHANGED <<driver, plabel, ptoken, pwire>>

WireNext == GetMagnitude \/ GetRate \/ GetRampStatus \/ SetRampStatus \/ WireReturn

WireSpec == WireInit /\ [][WireNext]_vars

\* ---- reading the command log --------------------------------------------
HoldCmd  == Cmd("W", "ACTN", "HOLD")
ToSetCmd == Cmd("W", "ACTN", "RTOS")
TempRead == Cmd("R", "TEMP", "")
FldRead  == Cmd("R", "FLD", "")

IsStatusRead(c) == c.k = "R" /\ c.q = "ACTN"

HasToSet(l) == \E i \in 1..Len(l) : l[i] = ToSetCmd
ToSetIdx(l) == CHOOSE i \in 1..Len(l) : l[i] = ToSetCmd /\ \A j \in 1..(i - 1) : l[j] # ToSetCmd

\* the indices of the writes of a log
WriteIdx(l) == {i \in 1..Len(l) : l[i].k = "W"}

Supervised == op = "field"

\* ---- C1 -----------------------------------------------------------------
\* C1: when a poll iteration reads a temperature above the limit, HOLD is
\* written before the error is raised; after that HOLD the ramp issues no
\* write and no further ramp_status read (no further iteration), so in every
\* ramp that ends in TemperatureExceeded the last write of the invocation is
\* ramp_status=HOLD, directly after the temperature read that tripped.
C1_TripEndsInHold ==
    Supervised =>
      /\ (pc = "trip_hold" => log[Len(log)] = TempRead /\ cmpTemp > cmpLimit)
      /\ (pc = "trip_raise" => log[Len(log)] = HoldCmd)
      /\ (result = "TemperatureExceeded" =>
            \E h \in 2..Len(log) :
               /\ log[h] = HoldCmd
               /\ log[h - 1] = TempRead
               /\ cmpTemp > cmpLimit
               /\ HasToSet(log) /\ ToSetIdx(log) < h
               /\ \A j \in (h + 1)..Len(log) : log[j].k = "R" /\ ~IsStatusRead(log[j])
               /\ \A w \in WriteIdx(log) : w <= h)

C1_Witness ==
    /\ Supervised /\ result = "TemperatureExceeded" /\ polls >= 1
    /\ log[Len(log) - 1] = HoldCmd

\* ---- C2 -----------------------------------------------------------------
\* C2: if the first switch_heater read returns OFF the request fails with a
\* HeaterOff error and exactly that one read, nothing else, went to the device.
C2_HeaterOffError ==
    (Supervised /\ Len(log) >= 1 /\ log[1] = Cmd("R", "SWHT", "OFF")) =>
        /\ result = "HeaterOff"
        /\ pc = "done"
        /\ Len(log) = 1

\* the part of C2 the code keeps: after an OFF read no further command is sent
C2_NoCommandAfterOff ==
    (Supervised /\ Len(log) >= 1 /\ log[1] = Cmd("R", "SWHT", "OFF")) =>
        /\ result = "TypeError"
        /\ pc = "done"
        /\ Len(log) = 1

\* ---- C3 -----------------------------------------------------------------
\* index of the TO SET write in the log of a supervised ramp
Base(l) == IF Len(l) >= 4 /\ l[4].v = "CLMP" THEN 6 ELSE 5

\* the command expected at position i of the log l
Expected(l, i) ==
    IF i = 1 THEN l[i] = Cmd("R", "SWHT", "ON")
    ELSE IF i = 2 THEN l[i] = FldRead
    ELSE IF i = 3 THEN l[i] = Cmd("W", "FSET", "")
    ELSE IF i = 4 THEN IsStatusRead(l[i])
    ELSE IF i < Base(l) THEN l[i] = HoldCmd
    ELSE IF i = Base(l) THEN l[i] = ToSetCmd
    ELSE IF (i - Base(l)) % 3 = 1 THEN IsStatusRead(l[i]) /\ (i < Len(l) => l[i].v = "RTOS")
    ELSE IF (i - Base(l)) % 3 = 2 THEN l[i] = TempRead
    ELSE l[i] = FldRead

\* C3: in a supervised ramp whose heater read is ON and whose interlock has
\* not tripped, the commands sent are, in order: read switch_heater, read
\* field, write field_target (= target), read ramp_status, write HOLD iff
\* that read was CLMP, write TO SET, then iterations of read ramp_status,
\* read temp, read field; the ramp ends in Completed exactly on a loop
\* ramp_status read that is not TO SET; no switch_heater write occurs.
C3_CommandOrder ==
    (Supervised /\ Len(log) >= 1 /\ log[1].v = "ON" /\ ~(cmpTemp > cmpLimit)) =>
        /\ \A i \in 1..Len(log) : Expected(log, i)
        /\ (Len(log) >= 3 => fset = target)
        /\ (result = "Completed" <=>
               /\ Len(log) > Base(log)
               /\ (Len(log) - Base(log)) % 3 = 1
               /\ log[Len(log)].v # "RTOS")
        /\ \A i \in 1..Len(log) : ~(log[i].k = "W" /\ log[i].q = "SWHT")

C3_Witness ==
    /\ Supervised /\ result = "Completed" /\ polls = MaxPolls
    /\ log[4].v = "CLMP" /\ Len(log) = 6 + 3 * MaxPolls + 1

\* ---- C4 -----------------------------------------------------------------
\* C4: a field write with a value outside [-FieldLimit, FieldLimit] ends in
\* ValidationError with no command sent at all.
C4_OutOfRangeSendsNothing ==
    (Supervised /\ (target < -FieldLimit \/ target > FieldLimit)) =>
        /\ result = "ValidationError"
        /\ pc = "done"
        /\ log = <<>>

C4_Witness ==
    Supervised /\ target = -(FieldLimit + 1) /\ result = "ValidationError" /\ log = <<>>

\* ---- C5 -----------------------------------------------------------------
\* C5: the interlock trips iff the temperature read is strictly greater than
\* the limit: the loop goes on to its field read only with temp <= limit,
\* without a HOLD write, and heads for the HOLD write only with temp > limit.
C5_StrictInterlock ==
    Supervised =>
      /\ (pc = "poll_field" =>
              /\ cmpTemp <= cmpLimit
              /\ log[Len(log)] = TempRead
              /\ result = "none")
      /\ (pc = "trip_hold" => cmpTemp > cmpLimit)
      /\ (HasToSet(log) /\ cmpTemp <= cmpLimit =>
              \A i \in (ToSetIdx(log) + 1)..Len(log) : log[i].k = "R")

C5_Witness ==
    /\ Supervised /\ pc = "poll_field" /\ polls >= 1
    /\ cmpTemp = cmpLimit /\ cmpLimit = TLimitDefault + 1

\* ---- C6 -----------------------------------------------------------------
\* C6: the loop ends in Completed exactly when a ramp_status read of the loop
\* returns a token other than RTOS; that read is the last command of the
\* invocation (no temp read, no field read, no write follow it).
C6_CompletedOnStatus ==
    Supervised =>
      /\ \A i \in 1..Len(log) :
            (HasToSet(log) /\ i > ToSetIdx(log) /\ IsStatusRead(log[i]) /\ log[i].v # "RTOS")
               => (i = Len(log) /\ result = "Completed" /\ pc = "done")
      /\ (result = "Completed" =>
            /\ HasToSet(log) /\ Len(log) > ToSetIdx(log)
            /\ IsStatusRead(log[Len(log)]) /\ log[Len(log)].v # "RTOS"
            /\ status # "TO SET"
            /\ \A w \in WriteIdx(log) : w <= ToSetIdx(log))

C6_Witness ==
    /\ Supervised /\ result = "Completed" /\ polls = 0
    /\ temp > t_limit /\ log[Len(log)].v = "RTOZ"

\* ---- C7 -----------------------------------------------------------------
\* C7: ramp_to_target sends one ramp_status read, then HOLD iff the read was
\* CLMP, then TO SET once, and nothing else.
C7_RampToTarget ==
    op = "ramp_to_target" =>
      LET n == Len(log) IN
      /\ pc \in {"done", "rtt_read", "rtt_hold", "rtt_toset"}
      /\ (n >= 1 => IsStatusRead(log[1]))
      /\ (n >= 2 => log[2] = (IF log[1].v = "CLMP" THEN HoldCmd ELSE ToSetCmd))
      /\ (n >= 3 => log[1].v = "CLMP" /\ log[3] = ToSetCmd)
      /\ n <= 3
      /\ (result = "Completed" <=> (n >= 2 /\ log[n] = ToSetCmd))
      /\ (result = "Completed" => n = (IF log[1].v = "CLMP" THEN 3 ELSE 2))

C7_Witness ==
    op = "ramp_to_target" /\ result = "Completed" /\ Len(log) = 3

C7_WitnessAlreadyToSet ==
    op = "ramp_to_target" /\ result = "Completed" /\ log[1].v = "RTOS"

\* ---- C8 -----------------------------------------------------------------
\* C8: the error of an interlock trip reports the temperature and the limit
\* of the comparison that tripped, so reached > limit in the report.
C8_ErrorEmbedsComparedValues ==
    result = "TemperatureExceeded" =>
        /\ errReached = cmpTemp
        /\ errLimit = cmpLimit
        /\ errReached > errLimit

\* ---- C9 -----------------------------------------------------------------
\* C9: a failure of the progress report never ends the ramp: a supervised
\* ramp ends only in Completed, in an interlock trip, or in one of the errors
\* of the precondition, the validation or the transport.
C9_ReportNeverEndsRamp ==
    Supervised =>
        result \in {"none", "Completed", "TemperatureExceeded", "TypeError",
                    "ValidationError", "CommunicationError", "ParseError"}

\* ---- C10 ----------------------------------------------------------------
\* C10: the fraction of every progress report is 1 when the field read equals
\* the target, whatever the start field, and its denominator is not zero
\* when start differs from target.
C10_FractionOneAtTarget ==
    (Supervised /\ report.out # "none") =>
        /\ (cur = target => report.den # 0 /\ report.num = report.den)
        /\ (start # target => report.den # 0)

\* the part of C10 the code keeps: with start # target the fraction exists
\* and is 1 at the target
C10_FractionWhenStartDiffers ==
    (Supervised /\ report.out # "none" /\ start # target) =>
        /\ report.den # 0
        /\ (cur = target => report.num = report.den /\ report.out = "waiting")

\* ---- C11 ----------------------------------------------------------------
\* C11: the ramp_status mapping is a bijection between the four labels and
\* the four wire tokens: writing a label sends its token, reading the reply
\* that ends in that token gives the label back, the label read maps to the
\* token the device holds; a label outside the four raises and sends nothing.
C11_EnumBijection ==
    /\ (pfn = "ramp_status_set" /\ plabel = "HOLD"    => pwire = <<Cmd("W", "ACTN", "HOLD")>>)
    /\ (pfn = "ramp_status_set" /\ plabel = "TO SET"  => pwire = <<Cmd("W", "ACTN", "RTOS")>>)
    /\ (pfn = "ramp_status_set" /\ plabel = "CLAMP"   => pwire = <<Cmd("W", "ACTN", "CLMP")>>)
    /\ (pfn = "ramp_status_set" /\ plabel = "TO ZERO" => pwire = <<Cmd("W", "ACTN", "RTOZ")>>)
    /\ (pfn = "ramp_status_set" /\ plabel \notin {"HOLD", "TO SET", "CLAMP", "TO ZERO"}
            => pwire = <<>> /\ pout.kind = "error")
    /\ (pfn = "ramp_status_get" =>
            /\ pout.kind = "label"
            /\ pout.s \in {"HOLD", "TO SET", "CLAMP", "TO ZERO"}
            /\ ValMapping[pout.s] = ptoken
            /\ (pwire # <<>> => pout.s = plabel /\ pwire[1].v = ptoken))
    /\ Cardinality({ValMapping[l] : l \in Labels}) = Cardinality(Labels)

C11_Witness ==
    /\ pfn = "ramp_status_get" /\ pwire # <<>> /\ plabel = "TO ZERO"
    /\ pout.s = "TO ZERO" /\ Len(reply) = 2 * MaxPath + 4

C11_WitnessUnmapped ==
    pfn = "ramp_status_set" /\ plabel = "RTOS" /\ pwire = <<>> /\ pout.kind = "error"

\* ---- C12 ----------------------------------------------------------------
\* C12: for a reply <path>:<number><1-char-unit> _singleunit_parser returns
\* exactly the number the device formatted; when what is left of the last
\* segment without its last character is no number it raises.
C12_MagnitudeExact ==
    pfn = "singleunit" =>
        /\ (pvalid => pout = Returned("num", "", ValueOf(pnum)))
        /\ (~pvalid => pout.kind = "error")

C12_Witness ==
    /\ pfn = "singleunit" /\ pvalid /\ pnum.neg /\ Len(pnum.fp) = MaxFrac
    /\ pout.kind = "num" /\ pout.m = -(DigitsToNat(pnum.ip \o pnum.fp)) /\ pout.m % 10 # 0
    /\ Len(reply) > Len(Fmt(pnum)) + 1

C12_WitnessParseError ==
    pfn = "singleunit" /\ ~pvalid /\ pout.kind = "error" /\ reply # <<>>

\* ---- C13 ----------------------------------------------------------------
\* C13: for a reply whose last segment is <number> and a three-character
\* rate unit _rate_parser returns exactly the number: no digit is lost and
\* no unit character is left in the text parsed.
C13_RateExact ==
    (pfn = "rate" /\ pvalid) => pout = Returned("num", "", ValueOf(pnum))

C13_Witness ==
    /\ pfn = "rate" /\ pvalid /\ Len(pnum.fp) = MaxFrac
    /\ pout.kind = "num" /\ pout.e = MaxFrac /\ pout.m % 10 # 0
    /\ Len(reply) > Len(Fmt(pnum)) + 3

\* ---- C14 ----------------------------------------------------------------
\* C14: the limit is 5 until it is set, only the setter changes it, and every
\* interlock check compares the temperature read with the limit as it is at
\* that check, also when it was set during the ramp.
C14_LimitReadFresh ==
    /\ t_limit = TLimitDefault
    /\ [][/\ (t_limit' # t_limit => pc' = pc /\ log' = log /\ t_limit' \in Temps)
          /\ ((pc = "poll_temp" /\ pc' \in {"trip_hold", "poll_field"}) =>
                 /\ cmpLimit' = t_limit
                 /\ cmpTemp' = temp
                 /\ (pc' = "trip_hold" <=> temp > t_limit))]_vars

C14_Witness ==
    /\ Supervised /\ pc = "trip_hold" /\ polls >= 1
    /\ cmpLimit = TLimitDefault - 1 /\ cmpTemp = TLimitDefault /\ t_limit = cmpLimit

\* ---- C15 ----------------------------------------------------------------
\* C15 as claimed: a field_target write or a TO SET write of a supervised
\* ramp is issued only after a switch_heater read that returned ON.
C15_StartsOnlyWhenOn ==
    (Supervised /\ \E i \in 1..Len(log) : log[i].k = "W") =>
        log[1] = Cmd("R", "SWHT", "ON")

\* C15 as amended: a field_target write or a TO SET write of a supervised
\* ramp is issued only after a switch_heater read that returned a token
\* other than OFF.
C15_StartsUnlessOff ==
    (Supervised /\ \E i \in 1..Len(log) : log[i].k = "W") =>
        /\ log[1].k = "R" /\ log[1].q = "SWHT"
        /\ log[1].v # "OFF"
        /\ \A i \in 2..Len(log) : log[i].q # "SWHT"

C15_Witness ==
    Supervised /\ HasToSet(log) /\ log[1] = Cmd("R", "SWHT", "N/A") /\ log[3].q = "FSET"

\* ---- C16 ----------------------------------------------------------------
\* C16: a round-trip of a supervised ramp that fails ends the invocation
\* with the error at once, without a command of its own, and the invocation
\* sends nothing afterwards (no retry).
C16_TransportFailureIsFatal ==
    [][/\ (Supervised /\ result = "none" /\ result' = "CommunicationError") =>
              /\ pc \in RoundTripPcs /\ pc' = "done"
              /\ log' = log /\ device' = device
       /\ (Supervised /\ result = "CommunicationError") =>
              /\ pc = "done" /\ pc' = "idle"
              /\ log' = <<>> /\ device' = device]_vars

C16_Witness ==
    /\ Supervised /\ result = "CommunicationError" /\ pc = "done"
    /\ polls >= 1 /\ log[Len(log)] = TempRead

\* ---- C17 ----------------------------------------------------------------
\* C17: with every round-trip returning and the supply leaving RTOS at last,
\* a started supervised ramp reaches its end; once it has an outcome the
\* invocation sends no command (no retry, no second TO SET): the caller
\* takes the outcome and the log is closed.
C17_RampTerminates ==
    /\ (Supervised /\ pc \notin {"idle", "done"}) ~> (pc = "done")
    /\ [][(Supervised /\ result # "none") =>
              (pc = "done" /\ pc' = "idle" /\ log' = <<>> /\ device' = device)]_vars

C17_Witness ==
    /\ Supervised /\ pc = "done" /\ polls = MaxPolls
    /\ result \in {"Completed", "TemperatureExceeded"}

\* ---- C18 ----------------------------------------------------------------
\* what switch_heater_on_and_wait does, whatever else can set the heater
HeaterOnAndWaitRun ==
    op = "switch_heater_on_and_wait" =>
        /\ Len(log) <= 2
        /\ \A i \in 1..Len(log) : log[i].q = "SWHT"
        /\ (Len(log) >= 1 => log[1].k = "R")
        /\ (Len(log) = 2 => log[1].v = "OFF" /\ log[2] = Cmd("W", "SWHT", "ON"))
        /\ (result = "Completed" =>
                IF log[1].v = "OFF" THEN Len(log) = 2 /\ waited = HeaterWait /\ heater = "ON"
                                    ELSE Len(log) = 1 /\ waited = 0)
        /\ (waited # 0 => result = "Completed")

\* C18 as claimed: switch_heater_on_and_wait reads switch_heater once, writes
\* ON and sleeps HeaterWait seconds iff the read was OFF, else returns at
\* once; it sends nothing but switch_heater commands, and no other operation
\* enables the heater.
C18_OnlyHeaterOperation ==
    /\ []HeaterOnAndWaitRun
    /\ [][(heater' # heater /\ heater' = "ON") =>
              op = "switch_heater_on_and_wait"]_vars

\* C18 as amended: the same, but the heater is enabled by
\* switch_heater_on_and_wait or by a direct write of the switch_heater
\* quantity, and by none of the ramp operations.
C18_HeaterOnAndWait ==
    /\ []HeaterOnAndWaitRun
    /\ [][heater' # heater =>
              \/ op = "switch_heater_on_and_wait" /\ heater = "OFF" /\ heater' = "ON"
              \/ op = "switch_heater" /\ log' = <<Cmd("W", "SWHT", heater')>>]_vars

C18_Witness ==
    /\ op = "switch_heater_on_and_wait" /\ result = "Completed"
    /\ Len(log) = 2 /\ waited = HeaterWait

C18_WitnessNoWait ==
    /\ op = "switch_heater_on_and_wait" /\ result = "Completed"
    /\ log = <<Cmd("R", "SWHT", "N/A")>> /\ waited = 0

\* ---- C19 ----------------------------------------------------------------
\* C19: no temperature read precedes the TO SET write; an interlock HOLD
\* comes only after TO SET, a loop ramp_status read of RTOS and a temperature
\* read, so a ramp never ends in TemperatureExceeded without having commanded
\* TO SET.
C19_InterlockAfterToSet ==
    Supervised =>
      /\ \A i \in 1..Len(log) :
            log[i] = TempRead => (HasToSet(log) /\ ToSetIdx(log) < i)
      /\ (pc \in {"poll_status", "poll_temp", "poll_field", "trip_hold", "trip_raise"}
            => HasToSet(log))
      /\ (result = "TemperatureExceeded" =>
            /\ HasToSet(log)
            /\ Len(log) >= ToSetIdx(log) + 4
            /\ \E h \in (ToSetIdx(log) + 3)..Len(log) :
                  /\ log[h] = HoldCmd
                  /\ log[h - 1] = TempRead
                  /\ log[h - 2] = Cmd("R", "ACTN", "RTOS"))

C19_Witness ==
    /\ Supervised /\ result = "TemperatureExceeded" /\ polls = 0
    /\ Len(log) = ToSetIdx(log) + 4
    /\ cmpTemp = TLimitDefault + 1 /\ cmpLimit = TLimitDefault

\* ---- C20 ----------------------------------------------------------------
\* C20: when the loop is left by an error without an interlock trip (a failed
\* or unparsable read, a failing progress report) nothing was written after
\* TO SET: the last command to ramp_status is still TO SET.
C20_NoHoldOnOtherErrors ==
    (/\ Supervised /\ HasToSet(log)
     /\ result \in {"CommunicationError", "ParseError", "ZeroDivisionError"}
     /\ ~(cmpTemp > cmpLimit)) =>
        /\ \A w \in WriteIdx(log) : w <= ToSetIdx(log)
        /\ \A i \in (ToSetIdx(log) + 1)..Len(log) : log[i].k = "R"

C20_Witness ==
    /\ Supervised /\ result = "ZeroDivisionError" /\ mode = "RTOS"
    /\ log[Len(log)] = FldRead /\ log[Len(log) - 3] = ToSetCmd
====
